---- MODULE Spec2Model ----
(***************************************************************************)
(* Model of the Jira tool server of src/main.py: the six tool functions,   *)
(* the staging directory ./tmp they read and write, the process-wide       *)
(* configuration they consult, and the Jira issue they talk to.            *)
(*                                                                         *)
(* Python strings that the code inspects (issue keys) are sequences of     *)
(* one-character strings; strings the code only compares or concatenates   *)
(* (file names, paths) are TLA+ strings; byte strings are sequences of     *)
(* numbers.  An optional argument is a record [some, val]: None has        *)
(* some = FALSE.                                                           *)
(***************************************************************************)
EXTENDS Integers, Sequences, FiniteSets, TLC

VARIABLES
  ISSUE_KEY,     \* the default issue key read from the environment at import
  attachments,   \* the attachment list Jira currently holds for issue HostedIssue
  staging,       \* the directory ./tmp: whether it exists, and its entries
  call           \* the tool call being answered: its arguments and all it did

vars == <<ISSUE_KEY, attachments, staging, call>>

----------------------------------------------------------------------------
(* Bounds of the model *)

\* the most attachments the hosted issue holds
MaxAtt == 2
\* the longest filenames list a caller passes
MaxReq == 2

----------------------------------------------------------------------------
(* Values *)

None == [some |-> FALSE, val |-> <<>>]
Some(v) == [some |-> TRUE, val |-> v]

\* Python truthiness of an optional str or list: None, "" and [] are falsy
Truthy(o) == o.some /\ o.val # <<>>

PROJECT_KEY == <<"P">>
ATTACHMENT_DOWNLOAD_PATH == "./tmp"

\* the one issue the Jira instance hosts, and an issue of another project
\* that it does not host
HostedIssue == <<"P", "-", "1">>
OtherIssue == <<"Q", "-", "2">>
\* what os.getenv("ISSUE_KEY") gives: None (unset), "" (set, empty), a key
EnvIssueKeys == {None, Some(<<>>), Some(HostedIssue)}
\* the issue_key argument of a call
ArgIssueKeys == {None, Some(HostedIssue), Some(OtherIssue)}

\* the most content fetches one download_attachments call makes
MaxFetch == IF MaxAtt > MaxReq THEN MaxAtt ELSE MaxReq

\* file names attachments carry, names a caller may ask for, names of
\* sub-directories of ./tmp, file contents
AttNames == {"a.png", "b.txt"}
ReqNames == AttNames \cup {"ghost.png"}
DirNames == {"old"}
StagedNames == ReqNames \cup DirNames
Contents == {<<1>>, <<2>>}
Attachment == [filename : AttNames, content : Contents]

RECURSIVE SeqsUpTo(_, _)
SeqsUpTo(S, n) ==
  IF n = 0 THEN {<<>>}
  ELSE LET shorter == SeqsUpTo(S, n - 1)
       IN shorter \cup {Append(s, x) : s \in {t \in shorter : Len(t) = n - 1}, x \in S}

\* the filenames argument: None, [] or a list of names
ArgFilenames == {None} \cup {Some(s) : s \in SeqsUpTo(ReqNames, MaxReq)}

\* the comment texts and the field lists of GET /field the model draws from
CommentTexts == {"looks good"}
FieldLists ==
  { <<>>,
    <<[name |-> "Summary", id |-> "summary"]>>,
    <<[name |-> "Summary", id |-> "summary"],
      [name |-> "Epic Name", id |-> "customfield_10014"]>> }

----------------------------------------------------------------------------
(* The file system under ./tmp *)

Absent == [kind |-> "absent", data |-> <<>>]
Dir == [kind |-> "dir", data |-> <<>>]
File(d) == [kind |-> "file", data |-> d]

\* ./tmp does not exist
NoStaging == [exists |-> FALSE, files |-> [n \in StagedNames |-> Absent]]
\* ./tmp as an earlier run left it: a file and a sub-directory
LeftOver ==
  [exists |-> TRUE,
   files |-> [n \in StagedNames |->
                IF n = "a.png" THEN File(<<1>>)
                ELSE IF n \in DirNames THEN Dir ELSE Absent]]

\* os.path.join(ATTACHMENT_DOWNLOAD_PATH, name), for a relative name
join(dir, name) == dir \o "/" \o name

\* os.path.exists(os.path.join(ATTACHMENT_DOWNLOAD_PATH, name))
path_exists(st, name) == st.exists /\ st.files[name].kind # "absent"

isfile_or_dir(st, name) == st.exists /\ st.files[name].kind # "absent"
\* os.path.isfile(os.path.join(ATTACHMENT_DOWNLOAD_PATH, f))
isfile(st, name) == st.exists /\ st.files[name].kind = "file"

\* os.path.exists(ATTACHMENT_DOWNLOAD_PATH)
dir_exists(st) == st.exists

makedirs_fresh(st) == [exists |-> TRUE, files |-> [n \in StagedNames |-> Absent]]
\* os.makedirs(ATTACHMENT_DOWNLOAD_PATH, exist_ok=True)
makedirs(st) == [st EXCEPT !.exists = TRUE]

open_rb_creating(st, name) ==
  IF st.exists /\ st.files[name].kind = "dir" THEN "IsADirectoryError" ELSE "ok"
\* open(file_path, "rb"): what it raises, or "ok"
open_rb(st, name) ==
  IF ~st.exists \/ st.files[name].kind = "absent" THEN "FileNotFoundError"
  ELSE IF st.files[name].kind = "dir" THEN "IsADirectoryError"
  ELSE "ok"

write_ab(entry, data) == File(entry.data \o data)
\* open(file_path, "wb") then f.write(data): the file is truncated, then
\* written.  The path is no directory (no attachment is named as one of
\* DirNames), and writing to the local disk does not fail.
write_wb(entry, data) == File(data)

\* the orders os.listdir may give the names of S in
Orders(S) ==
  {s \in SeqsUpTo(S, Cardinality(S)) :
     Len(s) = Cardinality(S) /\ {s[i] : i \in 1..Len(s)} = S}

----------------------------------------------------------------------------
(* Requests sent to Jira, and the record of a call *)

Request(method, kind, key, idx, ok) ==
  [method |-> method, kind |-> kind, key |-> key, idx |-> idx, ok |-> ok]

NoResult ==
  [keys |-> {}, downloaded_files |-> <<>>, not_found_files |-> <<>>,
   files |-> <<>>, count |-> 0, message |-> "", uploaded_file |-> "",
   issue_key |-> <<>>, value |-> ""]

\* op, the arguments, how the call ended (outcome), what it logged, the requests
\* it sent (net), the attachment list the issue fetch gave (fetched), the value
\* it returned (result), and ./tmp as the call found it (before)
NoCall ==
  [op |-> "idle", issue_key |-> None, filenames |-> None, filename |-> "",
   outcome |-> "ok", logs |-> {}, net |-> <<>>, fetched |-> <<>>,
   result |-> NoResult, before |-> NoStaging]

\* the server is waiting for the next tool call
Idle == call = NoCall

StartsWith(s, p) == Len(s) >= Len(p) /\ SubSeq(s, 1, Len(p)) = p

\* The first lines of download_attachments, upload_attachment and add_comment:
\* the key the call goes on with, what is logged, and whether
\* issue_key.startswith raises (issue_key is None)
ResolveKey(provided) ==
  LET fromEnv == ~Truthy(provided)
      key == IF fromEnv THEN ISSUE_KEY ELSE provided
      logs1 == IF fromEnv
               THEN (IF ~Truthy(ISSUE_KEY) THEN {"error: no issue key"} ELSE {})
                    \cup {"info: using ISSUE_KEY"}
               ELSE {}
  IN IF ~key.some
     THEN [raised |-> TRUE, key |-> <<>>, logs |-> logs1]
     ELSE [raised |-> FALSE, key |-> key.val,
           logs |-> logs1 \cup
                    (IF StartsWith(key.val, PROJECT_KEY \o <<"-">>) THEN {}
                     ELSE {"warning: other project"})]

----------------------------------------------------------------------------
(* download_attachments *)

\* the inner loop of the filtered path: the first attachment whose filename
\* equals the requested name, 0 when there is none
FirstMatch(atts, name) ==
  LET hits == {i \in 1..Len(atts) : atts[i].filename = name}
  IN IF hits = {} THEN 0 ELSE CHOOSE i \in hits : \A j \in hits : i <= j

\* what the two loops go through: the requested names with their match, or
\* every attachment
Items(atts, filenames) ==
  IF Truthy(filenames)
  THEN [i \in 1..Len(filenames.val) |->
          [name |-> filenames.val[i], idx |-> FirstMatch(atts, filenames.val[i])]]
  ELSE [i \in 1..Len(atts) |-> [name |-> atts[i].filename, idx |-> i]]

ContentFetchIgnored(s) == s
\* raise_for_status() of a content fetch raises, and the except clause of the
\* function logs the error: the loop is left
ContentFetchFailed(s) ==
  [s EXCEPT !.status = "swallowed", !.logs = @ \cup {"error: request failed"}]

\* one attachment: GET its content URL, write the bytes under its filename
FetchAndSave(s, att, idx, failAt) ==
  LET ok == Len(s.net) + 1 # failAt
      s1 == [s EXCEPT !.net = Append(@, Request("GET", "content", <<>>, idx, ok))]
  IN IF ~ok THEN ContentFetchFailed(s1)
     ELSE [s1 EXCEPT !.files[att.filename] = write_wb(@, att.content),
                     !.saved = Append(@, join(ATTACHMENT_DOWNLOAD_PATH, att.filename))]

RECURSIVE RunLoop(_, _, _, _, _)
RunLoop(s, atts, items, i, failAt) ==
  IF i > Len(items) \/ s.status # "run" THEN s
  ELSE LET it == items[i]
           s1 == IF it.idx = 0
                 THEN [s EXCEPT !.not_found = Append(@, it.name),
                                !.logs = @ \cup {"warning: file not found"}]
                 ELSE FetchAndSave(s, atts[it.idx], it.idx, failAt)
       IN RunLoop(s1, atts, items, i + 1, failAt)

\* the loop of either path, from the state the function has before it
DownloadLoop(files, net, logs, atts, filenames, failAt) ==
  RunLoop([files |-> files, saved |-> <<>>, not_found |-> <<>>,
           net |-> net, logs |-> logs, status |-> "run"],
          atts, Items(atts, filenames), 1, failAt)

DownloadMessage(filenames, not_found) ==
  IF Truthy(filenames)
  THEN (IF not_found # <<>> THEN "downloaded some requested" ELSE "downloaded all requested")
  ELSE "downloaded attachments"

download_attachments(issue_key, filenames, failAt) ==
  LET r == ResolveKey(issue_key)
      c0 == [NoCall EXCEPT !.op = "download_attachments", !.issue_key = issue_key,
                           !.filenames = filenames, !.logs = r.logs,
                           !.before = staging]
      fetchOk == failAt # 1 /\ r.key = HostedIssue
      net1 == <<Request("GET", "issue", r.key, 0, fetchOk)>>
      dir == makedirs(staging)
      s == DownloadLoop(dir.files, net1, r.logs, attachments, filenames, failAt)
  IN IF r.raised
     THEN /\ call' = [c0 EXCEPT !.outcome = "AttributeError"]
          /\ UNCHANGED staging
     ELSE IF ~fetchOk
     THEN /\ call' = [c0 EXCEPT !.outcome = "swallowed", !.net = net1,
                                !.logs = @ \cup {"error: request failed"}]
          /\ UNCHANGED staging
     ELSE IF attachments = <<>>
     THEN /\ call' = [c0 EXCEPT !.net = net1, !.fetched = attachments,
                        !.result = [NoResult EXCEPT
                                      !.keys = {"downloaded_files", "message"},
                                      !.message = "no attachments"]]
          /\ staging' = dir
     ELSE /\ call' = [c0 EXCEPT
                        !.net = s.net, !.fetched = attachments, !.logs = s.logs,
                        !.outcome = IF s.status = "run" THEN "ok" ELSE s.status,
                        !.result =
                          IF s.status # "run" THEN NoResult
                          ELSE [NoResult EXCEPT
                                  !.keys = {"downloaded_files", "not_found_files",
                                            "message", "issue_key", "project_key"},
                                  !.downloaded_files = s.saved,
                                  !.not_found_files = s.not_found,
                                  !.message = DownloadMessage(filenames, s.not_found),
                                  !.issue_key = r.key]]
          /\ staging' = [dir EXCEPT !.files = s.files]

Download ==
  \E issue_key \in ArgIssueKeys, filenames \in ArgFilenames,
     failAt \in 0..(MaxFetch + 1) :
    /\ Idle
    /\ download_attachments(issue_key, filenames, failAt)
    /\ UNCHANGED <<ISSUE_KEY, attachments>>

----------------------------------------------------------------------------
(* upload_attachment *)

upload_attachment(filename, issue_key, postOk) ==
  LET r == ResolveKey(issue_key)
      logs2 == r.logs \cup (IF path_exists(staging, filename) THEN {}
                            ELSE {"error: file not found"})
      c0 == [NoCall EXCEPT !.op = "upload_attachment", !.issue_key = issue_key,
                           !.filename = filename, !.logs = r.logs,
                           !.before = staging]
      opened == open_rb(staging, filename)
      ok == postOk /\ r.key = HostedIssue /\ Len(attachments) < MaxAtt
      net1 == <<Request("POST", "attachments", r.key, 0, ok)>>
  IN IF r.raised
     THEN /\ call' = [c0 EXCEPT !.outcome = "AttributeError"]
          /\ UNCHANGED attachments
     ELSE IF opened # "ok"
     THEN /\ call' = [c0 EXCEPT !.outcome = opened, !.logs = logs2]
          /\ UNCHANGED attachments
     ELSE IF ~ok
     THEN /\ call' = [c0 EXCEPT !.outcome = "swallowed", !.net = net1,
                                !.logs = logs2 \cup {"error: request failed"}]
          /\ UNCHANGED attachments
     ELSE /\ call' = [c0 EXCEPT !.net = net1, !.logs = logs2,
                        !.result = [NoResult EXCEPT
                                      !.keys = {"uploaded_file", "message",
                                                "issue_key", "project_key"},
                                      !.uploaded_file = filename,
                                      !.message = "uploaded",
                                      !.issue_key = r.key]]
          /\ attachments' = Append(attachments,
                                   [filename |-> filename,
                                    content |-> staging.files[filename].data])

Upload ==
  \E filename \in StagedNames, issue_key \in ArgIssueKeys, postOk \in BOOLEAN :
    /\ Idle
    /\ upload_attachment(filename, issue_key, postOk)
    /\ UNCHANGED <<ISSUE_KEY, staging>>

----------------------------------------------------------------------------
(* list_tmp_files *)

list_tmp_files(order) ==
  IF ~dir_exists(staging)
  THEN call' = [NoCall EXCEPT !.op = "list_tmp_files", !.before = staging,
                  !.result = [NoResult EXCEPT !.keys = {"files", "message"},
                                              !.message = "directory does not exist"]]
  ELSE call' = [NoCall EXCEPT !.op = "list_tmp_files", !.before = staging,
                  !.result = [NoResult EXCEPT !.keys = {"files", "count", "message"},
                                              !.files = order,
                                              !.count = Len(order),
                                              !.message = "found files"]]

ListTmpFiles ==
  \E order \in Orders({n \in StagedNames : isfile(staging, n)}) :
    /\ Idle
    /\ list_tmp_files(order)
    /\ UNCHANGED <<ISSUE_KEY, attachments, staging>>

----------------------------------------------------------------------------
(* add_comment, get_project_info, get_epic_name_field_id *)

add_comment(comment_text, issue_key, postOk) ==
  LET r == ResolveKey(issue_key)
      c0 == [NoCall EXCEPT !.op = "add_comment", !.issue_key = issue_key,
                           !.logs = r.logs, !.before = staging]
      ok == postOk /\ r.key = HostedIssue
      net1 == <<Request("POST", "comment", r.key, 0, ok)>>
  IN IF r.raised THEN call' = [c0 EXCEPT !.outcome = "AttributeError"]
     ELSE IF ~ok
     THEN call' = [c0 EXCEPT !.outcome = "swallowed", !.net = net1,
                             !.logs = @ \cup {"error: request failed"}]
     ELSE call' = [c0 EXCEPT !.net = net1,
                     !.result = [NoResult EXCEPT
                                   !.keys = {"comment_id", "comment_text", "message",
                                             "issue_key", "project_key", "created",
                                             "author"},
                                   !.value = comment_text,
                                   !.message = "added comment",
                                   !.issue_key = r.key]]

AddComment ==
  \E comment_text \in CommentTexts, issue_key \in ArgIssueKeys, postOk \in BOOLEAN :
    /\ Idle
    /\ add_comment(comment_text, issue_key, postOk)
    /\ UNCHANGED <<ISSUE_KEY, attachments, staging>>

get_project_info(getOk) ==
  LET c0 == [NoCall EXCEPT !.op = "get_project_info", !.before = staging,
                           !.net = <<Request("GET", "project", PROJECT_KEY, 0, getOk)>>]
  IN IF ~getOk
     THEN call' = [c0 EXCEPT !.outcome = "swallowed",
                             !.logs = {"error: request failed"}]
     ELSE call' = [c0 EXCEPT
                     !.result = [NoResult EXCEPT
                                   !.keys = {"project_key", "project_name", "project_id",
                                             "project_type", "description"}]]

GetProjectInfo ==
  \E getOk \in BOOLEAN :
    /\ Idle
    /\ get_project_info(getOk)
    /\ UNCHANGED <<ISSUE_KEY, attachments, staging>>

get_epic_name_field_id(getOk, fields) ==
  LET c0 == [NoCall EXCEPT !.op = "get_epic_name_field_id", !.before = staging,
                           !.net = <<Request("GET", "field", <<>>, 0, getOk)>>]
      hits == {i \in 1..Len(fields) : fields[i].name = "Epic Name"}
  IN IF ~getOk
     THEN call' = [c0 EXCEPT !.outcome = "swallowed",
                             !.logs = {"error: request failed"}]
     ELSE call' = [c0 EXCEPT
                     !.result = [NoResult EXCEPT
                       !.value = IF hits = {} THEN "customfield_10011"
                                 ELSE fields[CHOOSE i \in hits : \A j \in hits : i <= j].id]]

GetEpicNameFieldId ==
  \E getOk \in BOOLEAN, fields \in FieldLists :
    /\ Idle
    /\ get_epic_name_field_id(getOk, fields)
    /\ UNCHANGED <<ISSUE_KEY, attachments, staging>>

----------------------------------------------------------------------------
(* Other users of the Jira instance attach files to the issue and delete them *)

JiraAttach ==
  \E att \in Attachment :
    /\ Idle
    /\ Len(attachments) < MaxAtt
    /\ attachments' = Append(attachments, att)
    /\ UNCHANGED <<ISSUE_KEY, staging, call>>

JiraDelete ==
  \E i \in 1..Len(attachments) :
    /\ Idle
    /\ attachments' = SubSeq(attachments, 1, i - 1) \o
                      SubSeq(attachments, i + 1, Len(attachments))
    /\ UNCHANGED <<ISSUE_KEY, staging, call>>

----------------------------------------------------------------------------
(* The server loop: the value a tool returned (or the exception it raised)
   goes to the caller, and the server waits for the next tool call.  Calls
   are served one at a time. *)

Return ==
  /\ ~Idle
  /\ call' = NoCall
  /\ UNCHANGED <<ISSUE_KEY, attachments, staging>>

----------------------------------------------------------------------------
(* The specification *)

\* what ./tmp is when the process starts
InitStagings == {NoStaging, LeftOver}

Init ==
  /\ ISSUE_KEY \in EnvIssueKeys
  /\ attachments = <<>>
  /\ staging \in InitStagings
  /\ call = NoCall

Next ==
  \/ Download
  \/ Upload
  \/ ListTmpFiles
  \/ AddComment
  \/ GetProjectInfo
  \/ GetEpicNameFieldId
  \/ JiraAttach
  \/ JiraDelete
  \/ Return

Spec == Init /\ [][Next]_vars

----------------------------------------------------------------------------
(* What the claims speak of *)

Range(s) == {s[i] : i \in 1..Len(s)}

Largest(S) == CHOOSE i \in S : \A j \in S : j <= i

\* the path the specification gives a staged file
TmpPath(name) == "./tmp/" \o name

\* some attachment of the list carries the name
OnIssue(atts, name) == \E i \in 1..Len(atts) : atts[i].filename = name

\* the first attachment of the list that carries the name
FirstWith(atts, name) ==
  CHOOSE i \in 1..Len(atts) :
    atts[i].filename = name /\ \A j \in 1..(i - 1) : atts[j].filename # name

\* the attachments a call selects, in the order it takes them
Selected(atts, filenames) ==
  IF Truthy(filenames)
  THEN LET found == SelectSeq(filenames.val, LAMBDA n : OnIssue(atts, n))
       IN [i \in 1..Len(found) |-> FirstWith(atts, found[i])]
  ELSE [i \in 1..Len(atts) |-> i]

IsDownload == call.op = "download_attachments"
AllRequestsOk == call.net # <<>> /\ \A i \in 1..Len(call.net) : call.net[i].ok
KeyOps == {"download_attachments", "upload_attachment", "add_comment"}

\* C1: a filtered download whose fetches all succeed returns saved = the paths
\* of the requested names found on the issue, notFound = the requested names
\* not found, both in request order, and together as long as the request.
C1_RequestedNamesPartitioned ==
  (IsDownload /\ Truthy(call.filenames) /\ AllRequestsOk) =>
    LET req == call.filenames.val
        found == SelectSeq(req, LAMBDA n : OnIssue(call.fetched, n))
        missing == SelectSeq(req, LAMBDA n : ~OnIssue(call.fetched, n))
    IN /\ call.outcome = "ok"
       /\ call.result.downloaded_files = [i \in 1..Len(found) |-> TmpPath(found[i])]
       /\ "not_found_files" \in call.result.keys
       /\ call.result.not_found_files = missing
       /\ Len(call.result.downloaded_files) + Len(call.result.not_found_files) = Len(req)

\* C1, where it holds: the same, for an issue that has at least one attachment.
C1_PartitionedWhenIssueHasAttachments ==
  (IsDownload /\ Truthy(call.filenames) /\ AllRequestsOk /\ call.fetched # <<>>) =>
    LET req == call.filenames.val
        found == SelectSeq(req, LAMBDA n : OnIssue(call.fetched, n))
        missing == SelectSeq(req, LAMBDA n : ~OnIssue(call.fetched, n))
    IN /\ call.outcome = "ok"
       /\ call.result.downloaded_files = [i \in 1..Len(found) |-> TmpPath(found[i])]
       /\ "not_found_files" \in call.result.keys
       /\ call.result.not_found_files = missing

\* C2: whatever attachments the issue has, none included, a filtered download
\* that returns a result lists in notFound every requested name that matches
\* no attachment, and every requested name is in saved or in notFound.
C2_UnmatchedNamesReported ==
  (IsDownload /\ Truthy(call.filenames) /\ call.outcome = "ok") =>
    LET req == call.filenames.val
    IN /\ "not_found_files" \in call.result.keys
       /\ \A n \in Range(req) :
            ~OnIssue(call.fetched, n) => n \in Range(call.result.not_found_files)
       /\ \A n \in Range(req) :
            \/ TmpPath(n) \in Range(call.result.downloaded_files)
            \/ n \in Range(call.result.not_found_files)

\* C3: a download without filenames (None or []) whose fetches all succeed
\* saves every attachment: saved has one path per attachment in list order,
\* each file is staged under its filename, and the result's notFound is empty.
C3_AllAttachmentsDownloaded ==
  (IsDownload /\ ~Truthy(call.filenames) /\ AllRequestsOk) =>
    /\ call.outcome = "ok"
    /\ "not_found_files" \in call.result.keys
    /\ call.result.not_found_files = <<>>
    /\ call.result.downloaded_files =
         [i \in 1..Len(call.fetched) |-> TmpPath(call.fetched[i].filename)]
    /\ staging.exists
    /\ \A i \in 1..Len(call.fetched) :
         LET n == call.fetched[i].filename
         IN /\ staging.files[n].kind = "file"
            /\ \E j \in 1..Len(call.fetched) :
                 /\ call.fetched[j].filename = n
                 /\ staging.files[n].data = call.fetched[j].content

\* C3, where it holds: the same, for an issue that has at least one attachment.
C3_DownloadedWhenIssueHasAttachments ==
  (call.fetched # <<>>) => C3_AllAttachmentsDownloaded

\* C4: upload_attachment of a name that is not in ./tmp sends no request and
\* leaves ./tmp (and the issue) as they were; it fails with FileNotFoundError
\* (with the AttributeError of the key resolution when there is no key at all).
C4_UploadOfMissingFile ==
  (call.op = "upload_attachment" /\ ~path_exists(call.before, call.filename)) =>
    /\ call.net = <<>>
    /\ staging = call.before
    /\ call.result = NoResult
    /\ call.outcome = IF call.issue_key.some \/ ISSUE_KEY.some
                      THEN "FileNotFoundError" ELSE "AttributeError"

C4_Witness ==
  /\ call.op = "upload_attachment"
  /\ call.filename = "ghost.png"
  /\ call.issue_key = Some(HostedIssue)
  /\ call.outcome = "FileNotFoundError"
  /\ "error: file not found" \in call.logs

\* C5: download_attachments, upload_attachment and add_comment, called without
\* a key when no default is configured, fail before any request is sent;
\* without a key when a default is configured, they address the default;
\* with a key, they address that key.
C5_IssueKeyResolved ==
  (call.op \in KeyOps) =>
    LET addressed == {call.net[i].key :
                        i \in {j \in 1..Len(call.net) : call.net[j].kind # "content"}}
    IN /\ (~call.issue_key.some /\ ~Truthy(ISSUE_KEY)) =>
            (call.outcome = "AttributeError" /\ call.net = <<>>)
       /\ (~call.issue_key.some /\ Truthy(ISSUE_KEY)) =>
            (call.outcome # "AttributeError" /\ addressed \subseteq {ISSUE_KEY.val})
       /\ call.issue_key.some =>
            (call.outcome # "AttributeError" /\ addressed \subseteq {call.issue_key.val})

\* C6: after a download that returned, in either path, a file the call saved
\* holds the content of the first attachment of the list with that filename.
C6_FirstMatchAuthoritative ==
  (IsDownload /\ call.outcome = "ok") =>
    \A n \in AttNames :
      TmpPath(n) \in Range(call.result.downloaded_files) =>
        staging.files[n] = File(call.fetched[FirstWith(call.fetched, n)].content)

\* C6, where it holds: the filtered path stages the first attachment of a
\* name, the download-all path the last one.
C6_FirstInFilteredLastInAll ==
  (IsDownload /\ call.outcome = "ok") =>
    \A n \in AttNames :
      TmpPath(n) \in Range(call.result.downloaded_files) =>
        LET with == {i \in 1..Len(call.fetched) : call.fetched[i].filename = n}
            i == IF Truthy(call.filenames) THEN FirstWith(call.fetched, n)
                 ELSE Largest(with)
        IN staging.files[n] = File(call.fetched[i].content)

\* C7: after a download that returned, every file name it fetched holds exactly
\* the bytes of the most recent fetch for that name, whatever was staged
\* before; and doing the same download again, the issue unchanged, leaves
\* ./tmp as it is.
C7_OverwriteWithLatest ==
  (IsDownload /\ call.outcome = "ok") =>
    /\ \A n \in StagedNames :
         LET gets == {i \in 1..Len(call.net) :
                        /\ call.net[i].kind = "content"
                        /\ call.net[i].ok
                        /\ call.fetched[call.net[i].idx].filename = n}
         IN gets # {} =>
              staging.files[n] = File(call.fetched[call.net[Largest(gets)].idx].content)
    /\ DownloadLoop(staging.files, <<call.net[1]>>, {}, call.fetched,
                    call.filenames, 0).files = staging.files

C7_Witness ==
  /\ IsDownload /\ call.outcome = "ok"
  /\ call.before.exists
  /\ call.before.files["a.png"] = File(<<1>>)
  /\ staging.files["a.png"] = File(<<2>>)

C9_NoRollbackStopAtFirstFailure ==
  IsDownload =>
    LET net == call.net
        failed == {i \in 2..Len(net) : ~net[i].ok}
        sel == Selected(call.fetched, call.filenames)
        k == Len(net) - 1
    IN /\ (net # <<>> /\ ~net[1].ok) =>
            /\ Len(net) = 1
            /\ staging = call.before
            /\ call.outcome = "swallowed"
            /\ call.result = NoResult
            /\ "error: request failed" \in call.logs
       /\ failed # {} =>
            /\ failed = {Len(net)}
            /\ k <= Len(sel)
            /\ \A j \in 1..k : net[j + 1].kind = "content" /\ net[j + 1].idx = sel[j]
            /\ staging.exists
            /\ \A n \in StagedNames :
                 LET wrote == {j \in 1..(k - 1) : call.fetched[sel[j]].filename = n}
                 IN staging.files[n] =
                      IF wrote = {} THEN call.before.files[n]
                      ELSE File(call.fetched[sel[Largest(wrote)]].content)
            /\ call.outcome = "swallowed"
            /\ call.result = NoResult
            /\ "error: request failed" \in call.logs

C9_Witness ==
  /\ IsDownload
  /\ Len(call.net) = 3
  /\ ~call.net[3].ok
  /\ staging.files # call.before.files
  /\ call.outcome = "swallowed"

\* C10: list_tmp_files, upload_attachment, add_comment, get_project_info and
\* get_epic_name_field_id leave every entry of ./tmp as it was;
\* download_attachments removes no file, and changes only entries named as an
\* attachment of the fetched issue (and, with filenames, also requested).
C10_StagingFrame ==
  /\ (call.op \in {"list_tmp_files", "upload_attachment", "add_comment",
                   "get_project_info", "get_epic_name_field_id"}) =>
        staging.files = call.before.files
  /\ IsDownload =>
        \A n \in StagedNames :
          /\ call.before.files[n].kind # "absent" => staging.files[n].kind # "absent"
          /\ staging.files[n] # call.before.files[n] =>
               /\ staging.files[n].kind = "file"
               /\ OnIssue(call.fetched, n)
               /\ Truthy(call.filenames) => n \in Range(call.filenames.val)

C10_Witness ==
  /\ IsDownload
  /\ call.before.files["a.png"] = File(<<1>>)
  /\ staging.files["a.png"] = File(<<1>>)
  /\ call.before.files["b.txt"] = Absent
  /\ staging.files["b.txt"].kind = "file"
  /\ staging.files["old"] = Dir

====
